---- MODULE Spec2Model ----
(***************************************************************************)
(* Model of the autoblog pipeline (watanka/autoblog): the file-backed      *)
(* metadata store (src/storage/json_storage.py), the monitoring helper     *)
(* that writes job records (src/utils/metadata_enhancer.py), the           *)
(* orchestrator (src/core/system.py) and the command-line runner (main.py).*)
(*                                                                         *)
(* File names are modelled as token sequences: the name "job_J1_3.json" in *)
(* directory metadata is the stem <<"job", "J1", "3">>; the extension is   *)
(* always ".json" and is left out.  A path template may hold the token     *)
(* "{job_id}".  A job record (a JSON object) is a function from key paths  *)
(* (<<"files", "trends">>) to leaf values.                                 *)
(***************************************************************************)
EXTENDS Integers, Sequences, FiniteSets, TLC

VARIABLES
    data_dir,   \* config['system']['data_dir']: the store's base directory
    now,        \* the wall clock, in seconds
    meta,       \* metadata directories: <<root, stem>> -> [rec, mtime]
    art,        \* artifact directories of data_dir: [dir, stem] -> [data, mtime]
    pc,         \* position of the running invocation of main()
    mode,       \* args.mode
    argJob,     \* args.job_id
    job_id,     \* BlogAutomationSystem.job_id of the running invocation
    parsers,    \* trend_parsers of the running invocation
    openaiKey,  \* OpenAIContentGenerator.api_key is set
    idx,        \* loop position inside discover_trends / generate_contents
    articles,   \* main(): articles, then analyzed_articles
    contents,   \* main(): contents
    results,    \* main(): publishing_results
    nJobs,      \* how many job ids have been generated so far
    writes,     \* how many writing calls a client of the store has made
    todo,       \* metadata_enhancer calls the current handler still has to make
    hist,       \* history: what each saveX of each job saved, and where
    last,       \* history: the last store / wrapper call and what it returned
    all_articles,       \* _filter_and_deduplicate_articles: the list passed in
    unique_articles,    \* its unique_articles, as the list of the dict's values
    filtered_articles,  \* the lists it has returned, one per application
    provider,           \* _extract_trending_articles: the parser class it runs in
    trending_articles,  \* the lists it has returned (none or one)
    analyzed_articles,  \* the lists GNewsTrendAnalyzer.analyze_trends has returned
    metadata_file,      \* update_job_metadata: the text of the file at metadata_path
    metadata,           \* its dict metadata, once computed
    writer,             \* its position: idle, computed, opened, killed
    old_file,           \* history: the text of the file when the call began
    last_request_time,  \* GNewsParser.last_request_time
    request_times,      \* history: the times at which session.get was called
    github_token,       \* DocusaurusPublisher.github_token is set and valid
    reachable,          \* the repository answers
    github,             \* DocusaurusPublisher._github is not None
    created             \* history: where each call of _create_file put the post

vars == <<data_dir, now, meta, art, pc, mode, argJob, job_id, parsers,
          openaiKey, idx, articles, contents, results, nJobs, writes, todo, hist,
          last, all_articles, unique_articles, filtered_articles,
          provider, trending_articles, analyzed_articles,
          metadata_file, metadata, writer, old_file,
          last_request_time, request_times,
          github_token, reachable, github, created>>

storeVars == <<data_dir, now, meta, art>>
runVars == <<pc, mode, argJob, job_id, parsers, openaiKey, idx, articles,
            contents, results, nJobs, todo>>
histVars == <<writes, hist>>
filterVars == <<all_articles, unique_articles, filtered_articles>>
scoreVars == <<provider, trending_articles, analyzed_articles>>
writeVars == <<metadata_file, metadata, writer, old_file>>
fetchVars == <<last_request_time, request_times>>
publisherVars == <<github_token, reachable, github, created>>
auxVars == <<scoreVars, writeVars, fetchVars, publisherVars>>

\* ---------------------------------------------------------------- bounds
MaxClock == 1
MaxJobs == 2
MaxWrites == 2
MaxArticles == 3
MaxScored == 2
MaxRequests == 3
MaxPosts == 3
MaxTime == 10

\* _generate_job_id: timestamp plus uuid prefix, a fresh name each time
JobId(n) == "J" \o ToString(n)
JobIds == {JobId(n) : n \in 1..MaxJobs}
NoJob == "None"
NoStatus == "None"
DataDirs == {"data", "custom"}
EnhancerRoot == "data"
Placeholder == "{job_id}"

\* ------------------------------------------------------- paths and names
Path(dir, stem) == [dir |-> dir, stem |-> stem]
NoPath == Path("", << >>)

\* strftime('%Y%m%d_%H%M%S') of the clock: one name token per second
Timestamp(t) == ToString(t)

\* '{job_id}' in path
HasPlaceholder(path) == \E i \in DOMAIN path.stem : path.stem[i] = Placeholder

\* path.format(job_id=job_id)
Format(path, j) ==
    Path(path.dir, [i \in DOMAIN path.stem |->
                      IF path.stem[i] = Placeholder THEN j ELSE path.stem[i]])

\* base, ext = os.path.splitext(path); f"{base}_{suffix}{ext}"
AppendSuffix(path, suffix) == Path(path.dir, Append(path.stem, suffix))

\* save_data that only formats the template when a job id is given
FinalPathFormatOnly(path, j, t) ==
    IF j # NoJob THEN Format(path, j)
    ELSE AppendSuffix(path, Timestamp(t))

\* JsonFileStorage.save_data: the file name policy
FinalPath(path, j, t) ==
    IF j # NoJob /\ HasPlaceholder(path) THEN Format(path, j)
    ELSE IF j # NoJob THEN AppendSuffix(path, j)
    ELSE AppendSuffix(path, Timestamp(t))

\* the path templates the orchestrator passes
TrendsSaveTemplate(j) == Path("trends", <<"trends", j>>)
TrendsLoadTemplate == Path("trends", <<"trends", Placeholder>>)
ContentsTemplate == Path("contents", <<"contents", Placeholder>>)
ResultsTemplate == Path("results", <<"publishing_results", Placeholder>>)

\* metadata/job_<job_id>.json as create_metadata names it before save_data
MetadataPath(j) == Path("metadata", <<"job", j>>)

\* the key of a metadata file: its root directory and its stem
MetaKey(root, path) == <<root, path.stem>>

\* os.path.join(self.base_dir, f"metadata/job_{job_id}.json")
RecordKey(j) == MetaKey(data_dir, MetadataPath(j))

\* os.path.join('data', 'metadata', f'job_{job_id}.json')
EnhancerKey(j) == MetaKey(EnhancerRoot, MetadataPath(j))

\* ------------------------------------------------------------ job records
IsPrefix(p, q) == Len(p) <= Len(q) /\ \A i \in 1..Len(p) : p[i] = q[i]
IsProperPrefix(p, q) == Len(p) < Len(q) /\ IsPrefix(p, q)

\* target[keys[-1]] = value after walking / creating the intermediate maps
SetLeaf(rec, p, v) ==
    [q \in ({q \in DOMAIN rec : ~IsPrefix(p, q)} \cup {p}) |->
        IF q = p THEN v ELSE rec[q]]

\* metadata.get('status')
StatusOf(rec) == IF <<"status">> \in DOMAIN rec THEN rec[<<"status">>] ELSE NoStatus

\* metadata['files'][file_type], None when absent
FileRef(rec, type) ==
    IF <<"files", type>> \in DOMAIN rec THEN rec[<<"files", type>>] ELSE NoPath

\* BlogAutomationSystem._create_job_metadata: the initial record
InitialRecord(j, t) ==
    (<<"job_id">> :> j) @@ (<<"started_at">> :> t) @@ (<<"status">> :> "started")
    @@ (<<"files", "trends">> :> NoPath) @@ (<<"files", "contents">> :> NoPath)
    @@ (<<"files", "publishing_results">> :> NoPath)

\* one file written: content and modification time
WriteFile(fs, key, content, t) ==
    [k \in DOMAIN fs \cup {key} |->
        IF k = key THEN [content |-> content, mtime |-> t] ELSE fs[k]]

\* JsonFileStorage.create_metadata: save_data(metadata, metadata_path), no job id
CreatedKey(j, t) == MetaKey(data_dir, FinalPath(MetadataPath(j), NoJob, t))

CreateMetadata(m, j, rec, t) == WriteFile(m, CreatedKey(j, t), rec, t)

\* JsonFileStorage.update_metadata: whether the call returns True
UpdateSucceeds(m, j, key) ==
    /\ RecordKey(j) \in DOMAIN m
    /\ \A p \in DOMAIN m[RecordKey(j)].content : ~IsProperPrefix(p, key)

\* update_metadata that sets the leaf and leaves updated_at as it was
UpdateMetadataNoStamp(m, j, key, value, t) ==
    IF UpdateSucceeds(m, j, key)
    THEN WriteFile(m, RecordKey(j), SetLeaf(m[RecordKey(j)].content, key, value), t)
    ELSE m

\* JsonFileStorage.update_metadata: the metadata directory after the call
UpdateMetadata(m, j, key, value, t) ==
    IF UpdateSucceeds(m, j, key)
    THEN WriteFile(m, RecordKey(j),
                   SetLeaf(SetLeaf(m[RecordKey(j)].content, key, value),
                           <<"updated_at">>, t), t)
    ELSE m

\* metadata_enhancer.update_job_metadata: metadata.update(metadata_updates)
DictUpdate(rec, upd) ==
    [q \in ({q \in DOMAIN rec : q[1] \notin DOMAIN upd}
            \cup {<<k>> : k \in DOMAIN upd}) |->
        IF Len(q) = 1 /\ q[1] \in DOMAIN upd THEN upd[q[1]] ELSE rec[q]]

UnknownRecord(j, t) ==
    (<<"job_id">> :> j) @@ (<<"timestamp">> :> t) @@ (<<"status">> :> "unknown")

UpdateJobMetadata(m, j, upd, t) ==
    LET old == IF EnhancerKey(j) \in DOMAIN m
               THEN m[EnhancerKey(j)].content ELSE UnknownRecord(j, t)
        merged == DictUpdate(old, upd)
        stamped == IF "updated_at" \in DOMAIN upd THEN merged
                   ELSE SetLeaf(merged, <<"updated_at">>, t)
    IN  WriteFile(m, EnhancerKey(j), stamped, t)

\* -------------------------------------------------------- find_latest_job
\* os.listdir(metadata_dir) filtered by startswith('job_') and endswith('.json')
JobFiles(m) ==
    {k \in DOMAIN m : k[1] = data_dir /\ Len(k[2]) >= 2 /\ k[2][1] = "job"}

\* sorted(files, key=getmtime, reverse=True): files of equal mtime keep the order
\* of os.listdir, which is arbitrary, so every order of the ties is possible
LatestFiles(m) ==
    LET files == JobFiles(m)
        n == Cardinality(files)
    IN  {s \in [1..n -> files] :
            /\ \A i, k \in 1..n : i # k => s[i] # s[k]
            /\ \A i, k \in 1..n : i < k => m[s[i]].mtime >= m[s[k]].mtime}

\* the loop over latest_files: index of the first file whose status matches, 0 if none
FirstMatch(m, s, status) ==
    LET hits == {i \in DOMAIN s : StatusOf(m[s[i]].content) = status}
    IN  IF hits = {} THEN 0 ELSE CHOOSE i \in hits : \A k \in hits : i <= k

\* find_latest_job without the fall-back to the newest record of any status
FindLatestInNoFallback(m, s, status) ==
    IF Len(s) = 0 THEN << >>
    ELSE IF status = NoStatus THEN s[1]
    ELSE IF FirstMatch(m, s, status) # 0 THEN s[FirstMatch(m, s, status)]
    ELSE << >>

\* JsonFileStorage.find_latest_job for one listing order: the key of the file whose
\* record is returned; << >> stands for the result None
FindLatestIn(m, s, status) ==
    IF Len(s) = 0 THEN << >>
    ELSE IF status # NoStatus /\ FirstMatch(m, s, status) # 0
         THEN s[FirstMatch(m, s, status)]
         ELSE s[1]

\* JsonFileStorage.find_latest_job: every result the call can produce
FindLatestJob(m, status) == {FindLatestIn(m, s, status) : s \in LatestFiles(m)}

\* --------------------------------------------------------------- load_data
\* via names the return statement taken: the file of the path ("file"), the file
\* a job record names ("record"), the newest file of the directory ("scan")
NotFound == [err |-> "NotFound", data |-> << >>, from |-> NoPath, via |-> "none"]
Loaded(a, path) == [err |-> "none", data |-> a[path].content, from |-> path,
                    via |-> "file"]

\* files = [f for f in os.listdir(dir_path) if f.endswith('.json')]
FilesIn(a, dir) == {p \in DOMAIN a : p.dir = dir}

\* the directories JsonFileStorage.__init__ creates
StoreDirs == {"trends", "contents", "results", "metadata"}

\* max(files, key=getmtime): any of the newest files
LoadLatestFile(a, dir) ==
    IF dir \notin StoreDirs \/ FilesIn(a, dir) = {} THEN {NotFound}
    ELSE {[Loaded(a, p) EXCEPT !.via = "scan"] :
             p \in {p \in FilesIn(a, dir) :
                      \A q \in FilesIn(a, dir) : a[p].mtime >= a[q].mtime}}

\* the file a completed job's record names for file_type, NoPath when it names none
ReferencedFile(rec, file_type) ==
    LET ref == FileRef(rec, file_type)
    IN  IF ref = NoPath THEN NoPath
        ELSE IF ref.dir = file_type THEN ref
        ELSE Path(file_type, ref.stem)

\* load_data with job_id None, for one result k of find_latest_job('completed')
LoadViaRecord(m, a, path, k) ==
    LET ref == IF k = << >> THEN NoPath ELSE ReferencedFile(m[k].content, path.dir)
    IN  IF ref # NoPath /\ ref \in DOMAIN a
        THEN {[Loaded(a, ref) EXCEPT !.via = "record"]}
        ELSE LoadLatestFile(a, path.dir)

\* load_data falling back to the newest file of the directory when the file of
\* the job is missing
LoadDataNewestWhenMissing(m, a, path, j) ==
    IF j # NoJob /\ HasPlaceholder(path) /\ Format(path, j) \in DOMAIN a
    THEN {Loaded(a, Format(path, j))}
    ELSE IF j = NoJob
    THEN UNION {LoadViaRecord(m, a, path, k) : k \in FindLatestJob(m, "completed")}
    ELSE LoadLatestFile(a, path.dir)

\* JsonFileStorage.load_data: every result the call can produce
LoadData(m, a, path, j) ==
    IF j # NoJob /\ HasPlaceholder(path)
    THEN IF Format(path, j) \in DOMAIN a
         THEN {Loaded(a, Format(path, j))}
         ELSE {NotFound}
    ELSE IF j = NoJob
    THEN UNION {LoadViaRecord(m, a, path, k) : k \in FindLatestJob(m, "completed")}
    ELSE LoadLatestFile(a, path.dir)

\* JsonFileStorage.save_data for an artifact: the artifact files after the call
SaveData(a, data, path, j, t) == WriteFile(a, FinalPath(path, j, t), data, t)

\* ------------------------------------------------- metadata_enhancer calls
Call(fn, a, b) == [fn |-> fn, a |-> a, b |-> b]

\* the metadata_updates dict each helper passes to update_job_metadata; measured
\* durations, token counts and request counts are opaque values
Updates(call, t) ==
    CASE call.fn = "update_job_status" ->
           IF call.a = "failed" /\ call.b # ""
           THEN ("status" :> call.a) @@ ("error" :> call.b)
           ELSE ("status" :> call.a)
      [] call.fn = "track_performance" ->
           ((call.a \o "_time") :> "duration") @@ ((call.a \o "_timestamp") :> t)
      [] call.fn = "track_api_usage" ->
           ("news_api_requests" :> "api_calls")
      [] call.fn = "track_llm_usage" ->
           ("llm_service" :> call.a) @@ ((call.a \o "_tokens") :> "total_tokens")
           @@ ((call.a \o "_requests") :> "1") @@ ((call.a \o "_cost") :> "cost")
           @@ ((call.a \o "_model") :> "model")

\* ------------------------------------------------------ providers, analyzer
Parser(type, key) == [type |-> type, key |-> key]

\* create_parser for a source name it does not know: None
NoParser == Parser("None", FALSE)

\* config trends.sources with the credentials found in the environment
ParserConfigs ==
    { << >>,
      <<Parser("gnews", FALSE)>>,
      <<Parser("gnews", TRUE)>>,
      <<Parser("gnews", TRUE), Parser("naver", TRUE)>>,
      <<NoParser, Parser("gnews", TRUE)>> }

\* ------------------------------------------- texts, blacklist, deduplication
\* A text is a sequence of characters. str.lower() on the letters that occur:
Lower(c) ==
    CASE c = "B" -> "b"
      [] c = "A" -> "a"
      [] c = "D" -> "d"
      [] OTHER -> c

LowerText(text) == [i \in DOMAIN text |-> Lower(text[i])]

\* term in text: substring test
Contains(text, term) ==
    \E i \in 1..(Len(text) - Len(term) + 1) :
        SubSeq(text, i, i + Len(term) - 1) = term

\* config trends.analysis.blacklist
Blacklist == {<<"B", "a", "d">>}

\* a blacklist test that lowers the terms but not the text
ContainsBlacklistedTermsCaseSensitive(text) ==
    IF text = << >> THEN FALSE
    ELSE \E term \in Blacklist : Contains(text, LowerText(term))

\* _contains_blacklisted_terms(text)
ContainsBlacklistedTerms(text) ==
    IF text = << >> THEN FALSE
    ELSE \E term \in Blacklist : Contains(LowerText(text), LowerText(term))

\* f"{title} {description}"
TitleAndDescription(article) == article.title \o <<" ">> \o article.description

\* deduplication where the last article of a url replaces the earlier one
RECURSIVE UniqueArticlesLastWins(_, _)
UniqueArticlesLastWins(articles_, unique) ==
    IF articles_ = << >> THEN unique
    ELSE LET article == Head(articles_)
         IN  IF article.url = "" THEN UniqueArticlesLastWins(Tail(articles_), unique)
             ELSE UniqueArticlesLastWins(Tail(articles_),
                     [i \in DOMAIN unique |->
                         IF unique[i].url = article.url THEN article ELSE unique[i]]
                     \o (IF \E i \in DOMAIN unique : unique[i].url = article.url
                         THEN << >> ELSE <<article>>))

\* first loop of _filter_and_deduplicate_articles: unique_articles as the list of
\* its values in insertion order (a dict keeps the order of first insertion)
RECURSIVE UniqueArticles(_, _)
UniqueArticles(articles_, unique) ==
    IF articles_ = << >> THEN unique
    ELSE LET article == Head(articles_)
             seen == {unique[i].url : i \in DOMAIN unique}
         IN  IF article.url # "" /\ article.url \notin seen
             THEN UniqueArticles(Tail(articles_), Append(unique, article))
             ELSE UniqueArticles(Tail(articles_), unique)

\* a filter that removes from the list while it walks it: after a removal the
\* next article is passed over unchecked
RECURSIVE NotBlacklistedSkipping(_)
NotBlacklistedSkipping(unique) ==
    IF unique = << >> THEN << >>
    ELSE IF ContainsBlacklistedTerms(TitleAndDescription(Head(unique)))
         THEN IF Tail(unique) = << >> THEN << >>
              ELSE <<Head(Tail(unique))>> \o NotBlacklistedSkipping(Tail(Tail(unique)))
         ELSE <<Head(unique)>> \o NotBlacklistedSkipping(Tail(unique))

\* second loop: drop the articles whose title and description hold a blacklisted term
RECURSIVE NotBlacklisted(_)
NotBlacklisted(unique) ==
    IF unique = << >> THEN << >>
    ELSE IF ContainsBlacklistedTerms(TitleAndDescription(Head(unique)))
         THEN NotBlacklisted(Tail(unique))
         ELSE <<Head(unique)>> \o NotBlacklisted(Tail(unique))

\* _filter_and_deduplicate_articles (the same code in the three parsers)
FilterAndDeduplicate(articles_) == NotBlacklisted(UniqueArticles(articles_, << >>))

\* an article as _fetch_top_news builds it; m is the monetization score the
\* analyzer will give it
Article(id, url, title, m) ==
    [id |-> id, url |-> url, title |-> title, description |-> <<"n", "o">>, m |-> m]

\* all_articles of get_trends when the requests succeed: gnews finds one story
\* under two categories and one item without a url, naver finds the same story.
\* At most one article of a provider passes the filter, so the ranking of
\* _extract_trending_articles and the cut at max_trends leave the list as it is.
Fetched(type) ==
    CASE type = "gnews" -> <<Article("g1", "u1", <<"o", "k">>, 30),
                             Article("g2", "u1", <<"o", "k">>, 30),
                             Article("g3", "", <<"o", "b">>, 30)>>
      [] type = "naver" -> <<Article("n1", "u1", <<"o", "k">>, 100)>>
      [] OTHER -> <<Article("w1", "u2", <<"o", "k">>, 70)>>

\* sorted(articles, key=monetization_score, reverse=True): stable insertion
RECURSIVE InsertDesc(_, _)
InsertDesc(s, x) ==
    IF s = << >> THEN <<x>>
    ELSE IF Head(s).m >= x.m THEN <<Head(s)>> \o InsertDesc(Tail(s), x)
    ELSE <<x>> \o s

RECURSIVE SortedDesc(_)
SortedDesc(s) ==
    IF s = << >> THEN << >>
    ELSE InsertDesc(SortedDesc(SubSeq(s, 1, Len(s) - 1)), s[Len(s)])

\* analysis_config.get('max_results', 10)
MaxResults == 10

Take(s, n) == SubSeq(s, 1, IF Len(s) < n THEN Len(s) ELSE n)

\* GNewsTrendAnalyzer.analyze_trends: rank by monetization score, keep the top
Analyzed(s) == Take(SortedDesc(s), MaxResults)

Put(f, k, v) == [x \in DOMAIN f \cup {k} |-> IF x = k THEN v ELSE f[x]]

\* ------------------------------------------------------------------- Init
\* what a caller receives: a value, or an exception
Returned(data) == [err |-> "none", data |-> data]
Raised(err) == [err |-> err, data |-> << >>]

NoCall ==
    [op |-> "none", job |-> NoJob, arg |-> "", existed |-> FALSE, result |-> "",
     ret |-> Returned(<< >>), prevOp |-> "none", prevJob |-> NoJob]

\* the calls that only read the disk
ReadOps == {"find_latest_job", "load_data", "load_trends_data", "load_contents_data"}

\* a call and what it returned: existed is what the call found on disk, result
\* what the store returned, ret what a wrapper returned to its caller; prevOp and
\* prevJob name the last call before it that wrote to the disk
Called(op, j, arg, existed, result, ret) ==
    [op |-> op, job |-> j, arg |-> arg, existed |-> existed, result |-> result,
     ret |-> ret,
     prevOp |-> IF last.op \in ReadOps THEN last.prevOp ELSE last.op,
     prevJob |-> IF last.op \in ReadOps THEN last.prevJob ELSE last.job]

\* os.path.exists(metadata_path) is false
NoFile == [exists |-> FALSE, text |-> << >>]

\* no call of a scoring function has been made
ScoreIdle ==
    /\ provider = "none"
    /\ trending_articles = << >>
    /\ analyzed_articles = << >>

\* no call of update_job_metadata is under way
WriteIdle ==
    /\ metadata_file = NoFile
    /\ metadata = << >>
    /\ writer = "idle"
    /\ old_file = NoFile

\* a parser that has made no request
FetchIdle ==
    /\ last_request_time = 0
    /\ request_times = << >>

\* a publisher that has not been asked to create a file
PublisherIdle ==
    /\ github_token = FALSE
    /\ reachable = FALSE
    /\ github = FALSE
    /\ created = << >>

AuxIdle == ScoreIdle /\ WriteIdle /\ FetchIdle /\ PublisherIdle

Init ==
    /\ data_dir \in DataDirs
    /\ now = 0
    /\ meta = << >>
    /\ art = << >>
    /\ pc = "idle"
    /\ mode = "full"
    /\ argJob = NoJob
    /\ job_id = NoJob
    /\ parsers = << >>
    /\ openaiKey = FALSE
    /\ idx = 1
    /\ articles = << >>
    /\ contents = << >>
    /\ results = << >>
    /\ nJobs = 0
    /\ todo = << >>
    /\ hist = << >>
    /\ writes = 0
    /\ last = NoCall
    /\ all_articles = << >>
    /\ unique_articles = << >>
    /\ filtered_articles = << >>
    /\ AuxIdle

\* time passes between two invocations of main()
Tick ==
    /\ pc = "idle"
    /\ now < MaxClock
    /\ now' = now + 1
    /\ UNCHANGED <<filterVars, auxVars, data_dir, meta, art, runVars, histVars, last>>

\* the job ids a user can pass as --job-id: none, or one printed by an earlier run
KnownJobs == {JobId(n) : n \in 1..nJobs}

\* main(): parse arguments, build the modules, construct BlogAutomationSystem
\* (which generates the job id and creates its record), enter the first stage
Start ==
    /\ pc = "idle"
    /\ nJobs < MaxJobs
    /\ \E md \in {"full", "trends", "content", "publish"},
          cfg \in ParserConfigs, key \in BOOLEAN :
       \E arg \in (IF md \in {"content", "publish"} THEN KnownJobs ELSE {}) \cup {NoJob} :
          /\ mode' = md
          /\ argJob' = arg
          /\ parsers' = cfg
          /\ openaiKey' = key
          /\ pc' = CASE md \in {"full", "trends"} -> "discover"
                     [] md = "content" -> "load_trends"
                     [] OTHER -> "load_contents"
    /\ nJobs' = nJobs + 1
    /\ job_id' = JobId(nJobs + 1)
    /\ meta' = CreateMetadata(meta, JobId(nJobs + 1), InitialRecord(JobId(nJobs + 1), now), now)
    /\ idx' = 1
    /\ articles' = << >>
    /\ contents' = << >>
    /\ results' = << >>
    /\ last' = NoCall
    /\ UNCHANGED <<filterVars, auxVars, data_dir, now, art, todo, histVars>>

\* metadata_enhancer.update_job_metadata, called by the helper at the head of todo
UpdateJobMetadataStep ==
    /\ Len(todo) > 0
    /\ meta' = UpdateJobMetadata(meta, job_id, Updates(Head(todo), now), now)
    /\ todo' = Tail(todo)
    /\ UNCHANGED <<filterVars, auxVars, data_dir, now, art, pc, mode, argJob, job_id, parsers, openaiKey,
                   idx, articles, contents, results, nJobs, histVars, last>>

\* the tracking calls at the end of get_trends
TrendTracking(status, msg) ==
    <<Call("track_performance", "trend_analysis", ""),
      Call("track_api_usage", "news", ""),
      Call("update_job_status", status, msg)>>

\* a get_trends that records in_progress before it looks at the credentials
MissingKeyCallsStatusFirst == <<Call("update_job_status", "in_progress", "")>>

\* the enhancer calls of a get_trends that finds no credentials: it returns
\* before the first of them
MissingKeyCalls == << >>

\* discover_trends: one turn of the loop, parser.get_trends(job_id=self.job_id)
GetTrends ==
    /\ pc = "discover"
    /\ Len(todo) = 0
    /\ idx <= Len(parsers)
    /\ \/ /\ parsers[idx] = NoParser
          /\ pc' = "raised"
          /\ UNCHANGED <<todo, articles, idx>>
       \/ /\ parsers[idx] # NoParser
          /\ ~parsers[idx].key
          /\ idx' = idx + 1
          /\ todo' = MissingKeyCalls
          /\ UNCHANGED <<articles, pc>>
       \/ /\ parsers[idx].key
          /\ idx' = idx + 1
          /\ UNCHANGED pc
          /\ \E outcome \in {"none", "some", "raised"} :
               /\ todo' = <<Call("update_job_status", "in_progress", "")>>
                          \o TrendTracking(IF outcome = "raised" THEN "failed" ELSE "success",
                                           IF outcome = "raised" THEN "error text" ELSE "")
               /\ articles' = IF outcome = "some"
                              THEN articles \o FilterAndDeduplicate(Fetched(parsers[idx].type))
                              ELSE articles
    /\ UNCHANGED <<filterVars, auxVars, storeVars, mode, argJob, job_id, parsers, openaiKey,
                   contents, results, nJobs, histVars, last>>

\* an analyzer that is invoked, and tracks its run, for an empty list too
AnalyzerCallsAlways(articles_) == <<Call("track_performance", "trend_analysis", "")>>

\* the enhancer calls of an analyze_trends that returns: none when the list is
\* empty (the analyzer is not invoked), else track_performance
AnalyzerCalls(articles_) ==
    IF articles_ = << >> THEN << >>
    ELSE <<Call("track_performance", "trend_analysis", "")>>

\* BlogAutomationSystem.analyze_trends, then the analyzer's analyze_trends
AnalyzeTrends ==
    /\ pc = "discover"
    /\ Len(todo) = 0
    /\ idx > Len(parsers)
    /\ \/ /\ pc' = "save_trends"
          /\ articles' = Analyzed(articles)
          /\ todo' = AnalyzerCalls(articles)
       \/ /\ articles # << >>
          /\ pc' = "raised"
          /\ todo' = <<Call("track_performance", "trend_analysis", ""),
                       Call("update_job_status", "failed", "error text")>>
          /\ UNCHANGED articles
    /\ UNCHANGED <<filterVars, auxVars, storeVars, mode, argJob, job_id, parsers, openaiKey, idx,
                   contents, results, nJobs, histVars, last>>

\* BlogAutomationSystem._update_job_metadata: the file reference, then, for the
\* publishing results, the status
UpdateJobFile(m, j, file_type, path, t) ==
    LET m1 == UpdateMetadata(m, j, <<"files", file_type>>, path, t)
    IN  IF file_type = "publishing_results"
        THEN UpdateMetadata(m1, j, <<"status">>, "completed", t)
        ELSE m1

\* save_trends_data / save_contents_data / save_publishing_results
SaveStage(data, template, file_type) ==
    /\ art' = SaveData(art, data, template, job_id, now)
    /\ meta' = UpdateJobFile(meta, job_id, file_type, FinalPath(template, job_id, now), now)
    /\ hist' = Put(hist, <<job_id, file_type>>,
                   [data |-> data, path |-> FinalPath(template, job_id, now)])

\* main(): blog_system.save_trends_data(analyzed_articles)
SaveTrendsData ==
    /\ pc = "save_trends"
    /\ Len(todo) = 0
    /\ SaveStage(articles, TrendsSaveTemplate(job_id), "trends")
    /\ pc' = IF mode = "full" THEN "generate" ELSE "done"
    /\ idx' = 1
    /\ UNCHANGED <<filterVars, auxVars, data_dir, now, mode, argJob, job_id, parsers, openaiKey,
                   articles, contents, results, nJobs, writes, todo, last>>

\* job_id or self.job_id
UsedJobId == IF argJob # NoJob THEN argJob ELSE job_id

\* load_trends_data / load_contents_data: try load_data, except return []
LoadWrapperReturn(r) == IF r.err = "none" THEN Returned(r.data) ELSE Returned(<< >>)

LoadStage(op, template, j, r) ==
    last' = Called(op, j, template, Format(template, j) \in DOMAIN art, r,
                   LoadWrapperReturn(r))

\* main(), mode content: load_trends_data(job_id=args.job_id), exit(1) when empty
LoadTrendsData ==
    /\ pc = "load_trends"
    /\ \E r \in LoadData(meta, art, TrendsLoadTemplate, UsedJobId) :
         /\ LoadStage("load_trends_data", TrendsLoadTemplate, UsedJobId, r)
         /\ articles' = LoadWrapperReturn(r).data
    /\ pc' = IF articles' = << >> THEN "exit1" ELSE "generate"
    /\ idx' = 1
    /\ UNCHANGED <<filterVars, auxVars, storeVars, mode, argJob, job_id, parsers, openaiKey,
                   contents, results, nJobs, todo, histVars>>

\* generate_contents: one turn of the loop, generate_content then format_content
GenerateContent ==
    /\ pc = "generate"
    /\ Len(todo) = 0
    /\ idx <= Len(articles)
    /\ \/ /\ ~openaiKey
          /\ contents' = Append(contents, [src |-> articles[idx].id, kind |-> "no_key"])
          /\ UNCHANGED todo
       \/ /\ openaiKey
          /\ \E outcome \in {"generated", "fallback", "raised"} :
               /\ contents' = Append(contents, [src |-> articles[idx].id, kind |-> outcome])
               /\ todo' = CASE outcome = "generated" ->
                                 <<Call("track_llm_usage", "openai", ""),
                                   Call("track_performance", "content_generation", "")>>
                            [] outcome = "fallback" ->
                                 <<Call("track_performance", "content_generation", "")>>
                            [] OTHER ->
                                 <<Call("track_performance", "content_generation", ""),
                                   Call("update_job_status", "failed", "error text")>>
    /\ idx' = idx + 1
    /\ UNCHANGED <<filterVars, auxVars, storeVars, pc, mode, argJob, job_id, parsers, openaiKey,
                   articles, results, nJobs, histVars, last>>

\* main(): blog_system.save_contents_data(contents), after the loop ended
SaveContentsData ==
    /\ pc = "generate"
    /\ Len(todo) = 0
    /\ idx > Len(articles)
    /\ SaveStage(contents, ContentsTemplate, "contents")
    /\ pc' = IF mode = "full" THEN "publish" ELSE "done"
    /\ UNCHANGED <<filterVars, auxVars, data_dir, now, mode, argJob, job_id, parsers, openaiKey, idx,
                   articles, contents, results, nJobs, writes, todo, last>>

\* main(), mode publish: load_contents_data(job_id=args.job_id), exit(1) when empty
LoadContentsData ==
    /\ pc = "load_contents"
    /\ \E r \in LoadData(meta, art, ContentsTemplate, UsedJobId) :
         /\ LoadStage("load_contents_data", ContentsTemplate, UsedJobId, r)
         /\ contents' = LoadWrapperReturn(r).data
    /\ pc' = IF contents' = << >> THEN "exit1" ELSE "publish"
    /\ UNCHANGED <<filterVars, auxVars, storeVars, mode, argJob, job_id, parsers, openaiKey, idx,
                   articles, results, nJobs, todo, histVars>>

\* publish_contents: nothing for an empty list, else DocusaurusPublisher.publish
PublishContents ==
    /\ pc = "publish"
    /\ Len(todo) = 0
    /\ \/ /\ contents = << >>
          /\ results' = << >>
          /\ UNCHANGED todo
       \/ /\ contents # << >>
          /\ \E ok \in {0, Len(contents)} :
               results' = <<[status |-> "success", total |-> Len(contents),
                             success |-> ok, failed |-> Len(contents) - ok]>>
          /\ todo' = <<Call("update_job_status", "in_progress", ""),
                       Call("track_performance", "publishing", ""),
                       Call("update_job_status", "success", "")>>
    /\ pc' = "save_results"
    /\ UNCHANGED <<filterVars, auxVars, storeVars, mode, argJob, job_id, parsers, openaiKey, idx,
                   articles, contents, nJobs, histVars, last>>

\* main(): blog_system.save_publishing_results(publishing_results)
SavePublishingResults ==
    /\ pc = "save_results"
    /\ Len(todo) = 0
    /\ SaveStage(results, ResultsTemplate, "publishing_results")
    /\ pc' = "done"
    /\ UNCHANGED <<filterVars, auxVars, data_dir, now, mode, argJob, job_id, parsers, openaiKey, idx,
                   articles, contents, results, nJobs, writes, todo, last>>

\* main() returns 0 ("done"), returns 1 from its except clause ("raised"), or
\* leaves by sys.exit(1) ("exit1")
Finish ==
    /\ pc \in {"done", "exit1", "raised"}
    /\ Len(todo) = 0
    /\ pc' = "idle"
    /\ mode' = "full"
    /\ argJob' = NoJob
    /\ job_id' = NoJob
    /\ parsers' = << >>
    /\ openaiKey' = FALSE
    /\ idx' = 1
    /\ articles' = << >>
    /\ contents' = << >>
    /\ results' = << >>
    /\ last' = NoCall
    /\ UNCHANGED <<filterVars, auxVars, storeVars, nJobs, todo, histVars>>

Next ==
    \/ Tick
    \/ Start
    \/ UpdateJobMetadataStep
    \/ GetTrends
    \/ AnalyzeTrends
    \/ SaveTrendsData
    \/ LoadTrendsData
    \/ GenerateContent
    \/ SaveContentsData
    \/ LoadContentsData
    \/ PublishContents
    \/ SavePublishingResults
    \/ Finish

Spec == Init /\ [][Next]_vars

\* ---------------------------------------------------------------------
\* One invocation of main() on an empty data directory.
FirstStart == nJobs = 0 /\ Start

FirstRunNext ==
    \/ Tick
    \/ FirstStart
    \/ UpdateJobMetadataStep
    \/ GetTrends
    \/ AnalyzeTrends
    \/ SaveTrendsData
    \/ LoadTrendsData
    \/ GenerateContent
    \/ SaveContentsData
    \/ LoadContentsData
    \/ PublishContents
    \/ SavePublishingResults
    \/ Finish

FirstRunSpec == Init /\ [][FirstRunNext]_vars

\* ---------------------------------------------------------------------
\* The store and the helpers as a library: a client calls them in any order.
\* ---------------------------------------------------------------------

\* whether some record file of job j is in the store's metadata directory
HasRecordFile(m, j) ==
    \E k \in JobFiles(m) : k[2][2] = j

\* JsonFileStorage.create_metadata(job_id, metadata) with the orchestrator's record
CallCreateMetadata ==
    /\ writes < MaxWrites
    /\ \E j \in JobIds :
         /\ meta' = CreateMetadata(meta, j, InitialRecord(j, now), now)
         /\ last' = Called("create_metadata", j, "", HasRecordFile(meta, j),
                           [err |-> "none", path |-> CreatedKey(j, now),
                            overwrote |-> CreatedKey(j, now) \in DOMAIN meta],
                           Returned(<< >>))
    /\ writes' = writes + 1
    /\ UNCHANGED <<filterVars, auxVars, data_dir, now, art, runVars, hist>>

\* JsonFileStorage.update_metadata(job_id, key, value)
CallUpdateMetadata ==
    /\ writes < MaxWrites
    /\ \E j \in JobIds, which \in {"status", "files.trends"} :
         LET key == IF which = "status" THEN <<"status">> ELSE <<"files", "trends">>
             value == IF which = "status" THEN "completed"
                      ELSE FinalPath(TrendsSaveTemplate(j), j, now)
         IN  /\ meta' = UpdateMetadata(meta, j, key, value, now)
             /\ last' = Called("update_metadata", j, [key |-> key, value |-> value],
                               RecordKey(j) \in DOMAIN meta,
                               UpdateSucceeds(meta, j, key), Returned(<< >>))
    /\ writes' = writes + 1
    /\ UNCHANGED <<filterVars, auxVars, data_dir, now, art, runVars, hist>>

\* metadata_enhancer.update_job_status(job_id, status)
CallUpdateJobStatus ==
    /\ writes < MaxWrites
    /\ \E j \in JobIds, status \in {"in_progress", "failed"} :
         /\ meta' = UpdateJobMetadata(meta, j,
                       Updates(Call("update_job_status", status, "error text"), now), now)
         /\ last' = Called("update_job_status", j, status, EnhancerKey(j) \in DOMAIN meta,
                           TRUE, Returned(<< >>))
    /\ writes' = writes + 1
    /\ UNCHANGED <<filterVars, auxVars, data_dir, now, art, runVars, hist>>

\* the data a client saves for job j
DataOf(j) == <<[id |-> j, m |-> 30]>>

\* JsonFileStorage.save_data(data, path, job_id) with the orchestrator's templates
CallSaveData ==
    /\ writes < MaxWrites
    /\ \E j \in JobIds :
       \E template \in {TrendsSaveTemplate(j), ContentsTemplate}, jarg \in {j, NoJob} :
         /\ art' = SaveData(art, DataOf(j), template, jarg, now)
         /\ last' = Called("save_data", jarg, template,
                           FinalPath(template, jarg, now) \in DOMAIN art,
                           FinalPath(template, jarg, now), Returned(<< >>))
    /\ writes' = writes + 1
    /\ UNCHANGED <<filterVars, auxVars, data_dir, now, meta, runVars, hist>>

\* A read leaves the disk as it is: the reads below are taken from the states a
\* writing call (or the passing of time) has left, not from one another.

\* the status filters a client passes: none, statuses that occur, one that cannot
StatusFilters == {NoStatus, "started", "completed", "no_such_status"}

\* JsonFileStorage.find_latest_job(status): result is the file whose record is returned
CallFindLatestJob ==
    /\ last.op \notin ReadOps
    /\ \E status \in StatusFilters :
       \E k \in FindLatestJob(meta, status) :
         last' = Called("find_latest_job", NoJob, status, JobFiles(meta) # {}, k, Returned(<< >>))
    /\ UNCHANGED <<filterVars, auxVars, storeVars, runVars, histVars>>

\* JsonFileStorage.load_data(path, job_id)
CallLoadData ==
    /\ last.op \notin ReadOps
    /\ \E template \in {TrendsLoadTemplate, ContentsTemplate, Path("trends", <<"latest">>)},
          j \in JobIds \cup {NoJob} :
       \E r \in LoadData(meta, art, template, j) :
         last' = Called("load_data", j, template,
                        j # NoJob /\ Format(template, j) \in DOMAIN art, r,
                        IF r.err = "none" THEN Returned(r.data) ELSE Raised(r.err))
    /\ UNCHANGED <<filterVars, auxVars, storeVars, runVars, histVars>>

\* BlogAutomationSystem.load_trends_data(job_id) / load_contents_data(job_id)
CallLoadWrapper ==
    /\ last.op \notin ReadOps
    /\ \E j \in JobIds :
         \/ \E r \in LoadData(meta, art, TrendsLoadTemplate, j) :
              LoadStage("load_trends_data", TrendsLoadTemplate, j, r)
         \/ \E r \in LoadData(meta, art, ContentsTemplate, j) :
              LoadStage("load_contents_data", ContentsTemplate, j, r)
    /\ UNCHANGED <<filterVars, auxVars, storeVars, runVars, histVars>>

StoreNext ==
    \/ Tick
    \/ CallCreateMetadata
    \/ CallUpdateMetadata
    \/ CallUpdateJobStatus
    \/ CallSaveData
    \/ CallFindLatestJob
    \/ CallLoadData
    \/ CallLoadWrapper

StoreSpec == Init /\ [][StoreNext]_vars

\* ---------------------------------------------------------------------
\* The runs of main() with, between two runs, a client of the store that loads
\* artifacts from the data directory the runs have left.
\* ---------------------------------------------------------------------
LoadBetweenRuns ==
    /\ pc = "idle"
    /\ CallLoadData

LoadNext ==
    \/ Next
    \/ LoadBetweenRuns

LoadSpec == Init /\ [][LoadNext]_vars

\* ---------------------------------------------------------------------
\* _filter_and_deduplicate_articles as a function of the list it is given,
\* applied once and then once more to its own result.
\* ---------------------------------------------------------------------

\* the urls, titles and descriptions of the articles passed in: no url or one of
\* two urls; a clean text, a title with the term in capitals, a description with
\* the term inside a word, and a text where only the join would spell the term
InputArticles ==
    {[url |-> u, title |-> x.title, description |-> x.description] :
        u \in {"", "u1", "u2"},
        x \in {[title |-> <<"o", "k">>, description |-> <<"n", "o">>],
               [title |-> <<"B", "A", "D">>, description |-> <<"n", "o">>],
               [title |-> <<"o", "k">>, description |-> <<"x", "b", "a", "d">>],
               [title |-> <<"o", "b">>, description |-> <<"a", "d">>]}}

InputLists == UNION {[1..n -> InputArticles] : n \in 0..MaxArticles}

FilterInit ==
    /\ data_dir \in DataDirs
    /\ now = 0
    /\ meta = << >>
    /\ art = << >>
    /\ pc = "idle"
    /\ mode = "full"
    /\ argJob = NoJob
    /\ job_id = NoJob
    /\ parsers = << >>
    /\ openaiKey = FALSE
    /\ idx = 1
    /\ articles = << >>
    /\ contents = << >>
    /\ results = << >>
    /\ nJobs = 0
    /\ todo = << >>
    /\ hist = << >>
    /\ writes = 0
    /\ last = NoCall
    /\ all_articles \in InputLists
    /\ unique_articles = << >>
    /\ filtered_articles = << >>
    /\ AuxIdle

\* _filter_and_deduplicate_articles(all_articles)
FilterArticles ==
    /\ Len(filtered_articles) = 0
    /\ unique_articles' = UniqueArticles(all_articles, << >>)
    /\ filtered_articles' = <<FilterAndDeduplicate(all_articles)>>
    /\ UNCHANGED <<auxVars, storeVars, runVars, histVars, last, all_articles>>

\* _filter_and_deduplicate_articles applied to the list it returned
FilterAgain ==
    /\ Len(filtered_articles) = 1
    /\ unique_articles' = UniqueArticles(filtered_articles[1], << >>)
    /\ filtered_articles' = Append(filtered_articles,
                                   FilterAndDeduplicate(filtered_articles[1]))
    /\ UNCHANGED <<auxVars, storeVars, runVars, histVars, last, all_articles>>

FilterNext ==
    \/ FilterArticles
    \/ FilterAgain

FilterSpec == FilterInit /\ [][FilterNext]_vars

\* ---------------------------------------------------------------------
\* Properties
\* ---------------------------------------------------------------------

\* C1: what save_trends_data / save_contents_data saved for a job id is what
\* load_trends_data / load_contents_data returns for that job id.
C1_SaveLoadRoundTrip ==
    /\ (last.op = "load_trends_data" /\ <<last.job, "trends">> \in DOMAIN hist)
         => last.ret = Returned(hist[<<last.job, "trends">>].data)
    /\ (last.op = "load_contents_data" /\ <<last.job, "contents">> \in DOMAIN hist)
         => last.ret = Returned(hist[<<last.job, "contents">>].data)

\* C2: a run started with --mode content or --mode publish and --job-id J works
\* on job J: the orchestrator's job id is J, no other job id is generated.
C2_ResumeKeepsJobId ==
    (pc # "idle" /\ mode \in {"content", "publish"} /\ argJob # NoJob)
        => job_id = argJob

\* C3: an update_metadata that immediately follows create_metadata for the same
\* job id finds the record at metadata/job_<id>.json and succeeds.
C3_UpdateAfterCreateSucceeds ==
    (last.op = "update_metadata" /\ last.prevOp = "create_metadata"
        /\ last.prevJob = last.job)
        => (last.existed /\ last.result = TRUE)

\* C4: once save_publishing_results has run for job J, a record of J names the
\* results file and has status completed, in every state that follows.
C4_PublishingResultsRecorded ==
    \A j \in JobIds :
        <<j, "publishing_results">> \in DOMAIN hist =>
            \E k \in DOMAIN meta :
                /\ k[2][2] = j
                /\ FileRef(meta[k].content, "publishing_results")
                       = hist[<<j, "publishing_results">>].path
                /\ StatusOf(meta[k].content) = "completed"

\* C5: failed is terminal: a record whose status is failed keeps that status.
C5_FailedIsTerminal ==
    [][\A k \in DOMAIN meta :
          StatusOf(meta[k].content) = "failed"
              => StatusOf(meta'[k].content) = "failed"]_vars

\* C6: a record's status is one of started, in_progress, success, failed,
\* completed (never unknown), and it only moves started -> in_progress,
\* in_progress -> success, in_progress -> failed, success -> completed.
C6_StatusLifecycle ==
    [][\A k \in DOMAIN meta' :
          /\ StatusOf(meta'[k].content)
                 \in {"started", "in_progress", "success", "failed", "completed"}
          /\ k \in DOMAIN meta =>
                \/ StatusOf(meta'[k].content) = StatusOf(meta[k].content)
                \/ <<StatusOf(meta[k].content), StatusOf(meta'[k].content)>>
                       \in {<<"started", "in_progress">>, <<"in_progress", "success">>,
                            <<"in_progress", "failed">>, <<"success", "completed">>}]_vars

\* C7: a record has status completed only if it references the trends, the
\* contents and the publishing results of its job.
C7_CompletedHasAllArtifacts ==
    \A k \in DOMAIN meta :
        StatusOf(meta[k].content) = "completed" =>
            /\ FileRef(meta[k].content, "trends") # NoPath
            /\ FileRef(meta[k].content, "contents") # NoPath
            /\ FileRef(meta[k].content, "publishing_results") # NoPath

\* C8: create_metadata for a job id that already has a record fails with
\* AlreadyExists and overwrites nothing.
C8_CreateExistingFails ==
    (last.op = "create_metadata" /\ last.existed)
        => (last.result.err = "AlreadyExists" /\ ~last.result.overwrote)

\* C9: find_latest_job returns none iff there is no job record; with a status
\* filter that some record matches, a most recently modified matching record;
\* otherwise (no filter, or no record matches) a most recently modified record.
C9_FindLatestJob ==
    last.op = "find_latest_job" =>
        LET files == JobFiles(meta)
            matching == {f \in files : StatusOf(meta[f].content) = last.arg}
        IN  IF files = {} THEN last.result = << >>
            ELSE IF last.arg # NoStatus /\ matching # {}
            THEN /\ last.result \in matching
                 /\ \A f \in matching : meta[last.result].mtime >= meta[f].mtime
            ELSE /\ last.result \in files
                 /\ \A f \in files : meta[last.result].mtime >= meta[f].mtime

\* a filtered search passed over a newer record of another status
C9_OlderMatchReturned ==
    /\ last.op = "find_latest_job"
    /\ last.arg = "started"
    /\ last.result # << >>
    /\ StatusOf(meta[last.result].content) = "started"
    /\ \E f \in JobFiles(meta) :
          /\ meta[f].mtime > meta[last.result].mtime
          /\ StatusOf(meta[f].content) # "started"

\* C10 as stated: loading an artifact for a job id whose file does not exist
\* fails with NotFound to the caller, for load_data and for the loadX wrappers.
C10_MissingArtifactFails ==
    (last.op \in {"load_data", "load_trends_data", "load_contents_data"}
        /\ last.job # NoJob /\ ~last.existed)
        => last.ret = Raised("NotFound")

\* C10: load_data for a job id and a path with the job id placeholder raises
\* NotFound when that file does not exist; load_trends_data and
\* load_contents_data get that error from the store and return the empty list
\* to their caller. Neither hands out another job's or an older file's data.
C10_MissingArtifactNotSubstituted ==
    /\ (last.op = "load_data" /\ last.job # NoJob /\ ~last.existed
           /\ HasPlaceholder(last.arg))
          => last.ret = Raised("NotFound")
    /\ (last.op \in {"load_trends_data", "load_contents_data"} /\ ~last.existed)
          => (last.result.err = "NotFound" /\ last.ret = Returned(<< >>))

\* a wrapper asked for a job without a file while the directory held other files
C10_MissingWhileOthersExist ==
    /\ last.op \in {"load_trends_data", "load_contents_data"}
    /\ ~last.existed
    /\ FilesIn(art, last.arg.dir) # {}
    /\ last.ret = Returned(<< >>)

\* C11: load_data without a job id loads the file that the most recently
\* modified completed job record names for the artifact type, if there is one;
\* otherwise the most recently modified file of the artifact directory, or it
\* fails with NotFound when the directory has no file. A file named only by a
\* record that is not completed is never loaded through the record.
C11_LoadWithoutJobId ==
    (last.op = "load_data" /\ last.job = NoJob) =>
        LET dir == last.arg.dir
            r == last.result
            completed == {k \in JobFiles(meta) :
                             StatusOf(meta[k].content) = "completed"}
            newest == {k \in completed :
                          \A f \in completed : meta[k].mtime >= meta[f].mtime}
            named == {FileRef(meta[k].content, dir) : k \in newest} \cap DOMAIN art
        IN  /\ r.via = "record" => r.from \in named
            /\ r.via # "record" =>
                  /\ \/ completed = {}
                     \/ \E k \in newest :
                           FileRef(meta[k].content, dir) \notin DOMAIN art
                  /\ IF FilesIn(art, dir) = {} THEN r.err = "NotFound"
                     ELSE /\ r.err = "none"
                          /\ r.from \in FilesIn(art, dir)
                          /\ \A q \in FilesIn(art, dir) :
                                art[r.from].mtime >= art[q].mtime

\* C12: save_data names the file, for the relative path templates its callers
\* pass, by three cases: job id and placeholder: the id replaces the placeholder
\* and occurs exactly once in the name; job id and no placeholder: the id is
\* appended to the name; no job id: the timestamp of the call is appended. The
\* file is written under the base directory, in the directory of the template.
C12_SaveDataNaming ==
    last.op = "save_data" =>
        LET t == last.arg
            j == last.job
            p == last.result
        IN  /\ p \in DOMAIN art
            /\ p.dir = t.dir
            /\ IF j # NoJob /\ HasPlaceholder(t)
               THEN /\ Len(p.stem) = Len(t.stem)
                    /\ Cardinality({i \in DOMAIN p.stem : p.stem[i] = j}) = 1
                    /\ \A i \in DOMAIN t.stem :
                          IF t.stem[i] = Placeholder THEN p.stem[i] = j
                          ELSE p.stem[i] = t.stem[i]
               ELSE IF j # NoJob
               THEN p.stem = Append(t.stem, j)
               ELSE \E t0 \in 0..now :
                       /\ p.stem = Append(t.stem, ToString(t0))
                       /\ art[p].mtime = t0

\* a job id was given for a template without the placeholder: the id was appended
C12_JobIdAppended ==
    /\ last.op = "save_data"
    /\ last.job # NoJob
    /\ ~HasPlaceholder(last.arg)
    /\ last.result.stem = <<"trends", last.job, last.job>>
    /\ last.result \in DOMAIN art

C14_UpdateCreatesNoRecord ==
    [][(/\ writes' = writes + 1
        /\ last'.op \in {"update_metadata", "update_job_status"}
        /\ \A k \in DOMAIN meta : k[2][2] # last'.job)
       => \A k \in DOMAIN meta' : k[2][2] # last'.job]_vars

\* C15: in the list discover_trends has merged from the providers, every
\* article has a url and no two articles have the same url.
C15_DiscoveredUrlsUnique ==
    pc = "discover" =>
        /\ \A i \in DOMAIN articles : articles[i].url # ""
        /\ \A i, k \in DOMAIN articles :
              i # k => articles[i].url # articles[k].url

\* C16: the deduplication keeps, for each url, the first article of the list
\* with that url and drops the later ones and the articles without a url, in
\* the order of first occurrence; the list returned holds those of them whose
\* text has no blacklisted term, in the same relative order.
C16_FirstOccurrenceKept ==
    Len(filtered_articles) = 1 =>
        LET first == {i \in DOMAIN all_articles :
                         /\ all_articles[i].url # ""
                         /\ \A k \in 1..(i - 1) :
                               all_articles[k].url # all_articles[i].url}
            clean == {i \in first :
                         /\ all_articles[i].title # <<"B", "A", "D">>
                         /\ all_articles[i].description # <<"x", "b", "a", "d">>}
            PickedInOrder(out, K) ==
                /\ Len(out) = Cardinality(K)
                /\ \E f \in [1..Len(out) -> K] :
                      /\ \A a, b \in 1..Len(out) : a < b => f[a] < f[b]
                      /\ \A n \in 1..Len(out) : out[n] = all_articles[f[n]]
        IN  /\ PickedInOrder(unique_articles, first)
            /\ PickedInOrder(filtered_articles[1], clean)

\* two different articles with one url were passed in, and one without a url:
\* the earlier of the two was returned
C16_EarlierOfTwoReturned ==
    /\ Len(filtered_articles) = 1
    /\ Len(all_articles) = 3
    /\ all_articles[1].url = ""
    /\ all_articles[2].url = all_articles[3].url
    /\ all_articles[2] # all_articles[3]
    /\ filtered_articles[1] = <<all_articles[2]>>

\* C17: _filter_and_deduplicate_articles applied to the list it returned
\* returns the same articles in the same order.
C17_FilterIdempotent ==
    Len(filtered_articles) = 2 => filtered_articles[2] = filtered_articles[1]

\* the filter ran twice on a list from which it had removed a duplicate and a
\* blacklisted article and kept one
C17_FilteredTwice ==
    /\ Len(filtered_articles) = 2
    /\ Len(all_articles) = 3
    /\ Len(filtered_articles[1]) = 1
    /\ \E i, k \in DOMAIN all_articles :
          i # k /\ all_articles[i].url = all_articles[k].url
    /\ \E i \in DOMAIN all_articles : all_articles[i].title = <<"B", "A", "D">>

\* C18 as stated: of 3 articles, two with one url and one with a blacklisted
\* term in title and description, in any order, deduplication leaves 2 with
\* different urls, the blacklist filter removes one and exactly 1 is returned.
C18_ExactlyOneReachesScoring ==
    (/\ Len(filtered_articles) = 1
     /\ Len(all_articles) = 3
     /\ \A i \in 1..3 : all_articles[i].url # ""
     /\ Cardinality({all_articles[i].url : i \in 1..3}) = 2
     /\ Cardinality({i \in 1..3 :
            \/ all_articles[i].title = <<"B", "A", "D">>
            \/ all_articles[i].description = <<"x", "b", "a", "d">>}) = 1)
    => /\ Len(unique_articles) = 2
       /\ unique_articles[1].url # unique_articles[2].url
       /\ Len(filtered_articles[1]) = 1

\* C18: of 3 articles, two with one url and one with a blacklisted term (in any
\* case, anywhere in title and description), in any order, deduplication
\* leaves 2 with different urls. If the article with the term is one of these
\* 2, the blacklist filter removes it and exactly 1 is returned; if it is the
\* later of the two with the same url, deduplication has dropped it already
\* and both remaining articles are returned.
C18_OneOrTwoReachScoring ==
    (/\ Len(filtered_articles) = 1
     /\ Len(all_articles) = 3
     /\ \A i \in 1..3 : all_articles[i].url # ""
     /\ Cardinality({all_articles[i].url : i \in 1..3}) = 2
     /\ Cardinality({i \in 1..3 :
            \/ all_articles[i].title = <<"B", "A", "D">>
            \/ all_articles[i].description = <<"x", "b", "a", "d">>}) = 1)
    => LET bad == CHOOSE i \in 1..3 :
                     \/ all_articles[i].title = <<"B", "A", "D">>
                     \/ all_articles[i].description = <<"x", "b", "a", "d">>
           laterDuplicate == \E k \in 1..(bad - 1) :
                                all_articles[k].url = all_articles[bad].url
       IN  /\ Len(unique_articles) = 2
           /\ unique_articles[1].url # unique_articles[2].url
           /\ Len(filtered_articles[1]) = (IF laterDuplicate THEN 2 ELSE 1)
           /\ \A n \in DOMAIN filtered_articles[1] :
                 filtered_articles[1][n] # all_articles[bad]

\* the first of two articles with one url has the term in capitals in its title:
\* only the article with the other url was returned
C18_BlacklistedFirstOfTwo ==
    /\ Len(filtered_articles) = 1
    /\ Len(all_articles) = 3
    /\ all_articles[1].url = "u1" /\ all_articles[1].title = <<"B", "A", "D">>
    /\ all_articles[2].url = "u1" /\ all_articles[2].title = <<"o", "k">>
    /\ all_articles[2].description = <<"n", "o">>
    /\ all_articles[3].url = "u2" /\ all_articles[3].title = <<"o", "b">>
    /\ filtered_articles[1] = <<all_articles[3]>>

\* C19: while providers are left to call, discover_trends goes on to the next
\* one and does not raise; a provider whose fetch raised adds no article.
C19_ProvidersIsolated ==
    [][(pc = "discover" /\ idx <= Len(parsers) /\ Len(todo) = 0)
       => /\ pc' = "discover"
          /\ idx' = idx + 1
          /\ (Len(todo') > 0 /\ todo'[Len(todo')].a = "failed")
                => articles' = articles]_vars

\* C20: when a failure of job J's trend analysis (provider call, deduplication
\* or scoring) is recorded, J's record gets status failed and the error text,
\* and the exception is on its way to the caller of the orchestrator: the stage
\* does not go on with an article list in place of the failure.
C20_TrendFailureFatal ==
    [][(/\ pc \in {"discover", "raised"}
        /\ Len(todo) > 0
        /\ Head(todo) = Call("update_job_status", "failed", "error text")
        /\ todo' = Tail(todo))
       => /\ StatusOf(meta'[EnhancerKey(job_id)].content) = "failed"
          /\ meta'[EnhancerKey(job_id)].content[<<"error">>] = "error text"
          /\ pc = "raised"]_vars

\* ---------------------------------------------------------------------
\* Scoring. Scores are kept in thousandths of a point (100 points = 100000),
\* weights in tenths (1.2 = 12), so that the arithmetic stays in the integers.
Min(a, b) == IF a < b THEN a ELSE b

Points(n) == n * 1000

\* len(article.get('description', '')): a description is kept as the text that
\* can hold keywords and the number of characters of no keyword that follow it
DescriptionLength(article) == Len(article.description) + article.padding

\* sorted(s, key=..., reverse=True): the order of the indices of s by key,
\* largest first; Python's sort is stable, equal keys keep their order
RECURSIVE InsertIndex(_, _, _)
InsertIndex(order, keys, i) ==
    IF order = << >> THEN <<i>>
    ELSE IF keys[Head(order)] >= keys[i]
         THEN <<Head(order)>> \o InsertIndex(Tail(order), keys, i)
         ELSE <<i>> \o order

RECURSIVE OrderDesc(_, _)
OrderDesc(keys, n) ==
    IF n = 0 THEN << >> ELSE InsertIndex(OrderDesc(keys, n - 1), keys, n)

SortedReverse(s, keys) ==
    LET order == OrderDesc(keys, Len(s))
    IN  [i \in DOMAIN s |-> s[order[i]]]

\* the parser classes
Providers == {"gnews", "naver", "newsapi"}

\* description_length / 200 in the gnews parser, / 150 in the other two
DescriptionNorm(p) == IF p = "gnews" THEN 200 ELSE 150

\* the source names the naver parser trusts (one of the seven, in Latin letters)
TrustedSources == {"Yonhap"}

\* category_weight: gnews and newsapi only
CategoryWeight(p, article) ==
    IF p # "naver" /\ article.category \in {"technology", "business"} THEN 12 ELSE 10

\* source_weight: fixed 1.0 in gnews, the allow-list in naver, absent in newsapi
SourceWeight(p, article) ==
    IF p = "naver" /\ article.source \in TrustedSources THEN 12 ELSE 10

\* image_weight: newsapi only
ImageWeight(p, article) ==
    IF p = "newsapi" /\ article.image THEN 11 ELSE 10

\* a score without min(1.0, ...) and without min(100, ...)
TrendScoreUnclamped(p, article) ==
    (60 * CategoryWeight(p, article) * SourceWeight(p, article) * ImageWeight(p, article)
        * DescriptionLength(article)) \div DescriptionNorm(p)

\* article['trend_score'] = min(100, 60 * weights * min(1.0, description_length / L))
TrendScore(p, article) ==
    Min(Points(100),
        (60 * CategoryWeight(p, article) * SourceWeight(p, article) * ImageWeight(p, article)
            * Min(DescriptionNorm(p), DescriptionLength(article))) \div DescriptionNorm(p))

\* _extract_trending_articles: sort by published_at (newest first), score, sort
\* by trend_score
ExtractTrendingArticles(p, articles_) ==
    LET sorted_articles ==
            SortedReverse(articles_, [i \in DOMAIN articles_ |-> articles_[i].published_at])
        scored == [i \in DOMAIN sorted_articles |->
                      ("trend_score" :> TrendScore(p, sorted_articles[i]))
                          @@ sorted_articles[i]]
    IN  SortedReverse(scored, [i \in DOMAIN scored |-> scored[i].trend_score])

\* ------------------------------------------------- GNewsTrendAnalyzer
\* self.categories, in the order of the dict
Categories == <<"tech", "business", "health", "lifestyle", "education", "social">>

\* self.categories[category]: the model keeps two keywords of tech and one of
\* each other category, the Korean ones written as two Latin letters
CategoryKeywords(category) ==
    CASE category = "tech" -> {<<"A", "I">>, <<"V", "R">>}
      [] category = "business" -> {<<"s", "t">>}
      [] category = "health" -> {<<"h", "l">>}
      [] category = "lifestyle" -> {<<"t", "r">>}
      [] category = "education" -> {<<"e", "d">>}
      [] category = "social" -> {<<"s", "o">>}

\* self.revenue_keywords[level], one keyword of each level
RevenueKeywords(level) ==
    CASE level = "high" -> {<<"r", "v">>}
      [] level = "medium" -> {<<"t", "p">>}
      [] level = "low" -> {<<"n", "w">>}

\* the if / elif chain over news_category.lower(), for the labels the parsers
\* assign ('tech' in 'technology', 'entertainment' counts as lifestyle, ...)
LabelCategory(news_category) ==
    CASE news_category = "technology" -> "tech"
      [] news_category = "business" -> "business"
      [] news_category = "health" -> "health"
      [] news_category = "entertainment" -> "lifestyle"
      [] news_category = "politics" -> "social"
      [] OTHER -> "none"

\* category_scores[category] at the end of the two scoring steps
CategoryScore(article, category) ==
    LET keywords == CategoryKeywords(category)
    IN  3 * Cardinality({k \in keywords : Contains(LowerText(article.title), LowerText(k))})
        + 2 * Cardinality({k \in keywords :
                              Contains(LowerText(article.description), LowerText(k))})
        + Cardinality({k \in keywords :
                          /\ article.content # << >>
                          /\ Contains(LowerText(article.content), LowerText(k))})
        + (IF LabelCategory(article.category) = category THEN 2 ELSE 0)

\* selected_categories before the sort
SelectedCategories(article) ==
    LET selected == SelectSeq(Categories, LAMBDA c : CategoryScore(article, c) > 0)
    IN  IF selected = << >> THEN <<"lifestyle">> ELSE selected

\* a choice that ignores the scores: the first three selected categories
EstimateCategoriesUnsorted(article) == Take(SelectedCategories(article), 3)

\* _estimate_categories(article)
EstimateCategories(article) ==
    LET selected == SelectedCategories(article)
    IN  Take(SortedReverse(selected,
                           [i \in DOMAIN selected |-> CategoryScore(article, selected[i])]),
             3)

\* revenue_scores[level] after the keyword loop
RevenueKeywordScore(article, level) ==
    LET level_keywords == RevenueKeywords(level)
    IN  3 * Cardinality({k \in level_keywords : Contains(article.title, k)})
        + 2 * Cardinality({k \in level_keywords : Contains(article.description, k)})
        + Cardinality({k \in level_keywords :
                          \E i \in DOMAIN article.keywords : Contains(article.keywords[i], k)})

\* revenue_scores[level] after the adjustment by the estimated categories
RevenueScore(article, level) ==
    LET categories == EstimateCategories(article)
        has(c) == \E i \in DOMAIN categories : categories[i] = c
        bonus == IF has("tech") \/ has("business") THEN "high"
                 ELSE IF has("health") \/ has("lifestyle") THEN "medium"
                 ELSE "none"
    IN  RevenueKeywordScore(article, level) + (IF bonus = level THEN 2 ELSE 0)

\* a tier choice that gives 100 when high ties with medium
CalculateMonetizationScoreTieHigh(article) ==
    LET high == RevenueScore(article, "high")
        medium == RevenueScore(article, "medium")
        low == RevenueScore(article, "low")
    IN  IF high >= medium /\ high > low THEN 100
        ELSE IF medium > low THEN 70
        ELSE 30

\* _calculate_monetization_score(article)
CalculateMonetizationScore(article) ==
    LET high == RevenueScore(article, "high")
        medium == RevenueScore(article, "medium")
        low == RevenueScore(article, "low")
    IN  IF high > medium /\ high > low THEN 100
        ELSE IF medium > low THEN 70
        ELSE 30

\* GNewsTrendAnalyzer.analyze_trends(articles): the articles with their
\* categories and monetization score, ranked by that score, the top max_results
AnalyzeTrendsList(articles_) ==
    IF articles_ = << >> THEN << >>
    ELSE LET tagged == [i \in DOMAIN articles_ |->
                          ("estimated_categories" :> EstimateCategories(articles_[i]))
                          @@ ("monetization_score" :> CalculateMonetizationScore(articles_[i]))
                          @@ articles_[i]]
         IN  Take(SortedReverse(tagged,
                                [i \in DOMAIN tagged |-> tagged[i].monetization_score]),
                  MaxResults)

\* ---------------------------------------------------------------------
\* _extract_trending_articles and analyze_trends as functions of the list they
\* are given: get_trends passes the list its filter returned, the analyzer
\* receives what the parser returned.
ScoreInputs ==
    {[title |-> <<"o", "k">>, description |-> << >>, padding |-> n, content |-> << >>,
      category |-> c, published_at |-> t, source |-> o.source, image |-> o.image,
      keywords |-> << >>] :
        n \in {0, 75, 300}, c \in {"technology", "entertainment"}, t \in {1, 2},
        o \in {[source |-> "Yonhap", image |-> TRUE], [source |-> "Blog", image |-> TRUE],
               [source |-> "Blog", image |-> FALSE]}}

\* the url of the i-th article of a list without duplicates
UrlOf(i) == "u" \o ToString(i)

\* a list of articles with the urls u1, u2, ...
WithUrls(f) == [i \in DOMAIN f |-> ("url" :> UrlOf(i)) @@ f[i]]

TrendInit ==
    /\ data_dir = "data"
    /\ now = 0
    /\ meta = << >>
    /\ art = << >>
    /\ pc = "idle"
    /\ mode = "full"
    /\ argJob = NoJob
    /\ job_id = NoJob
    /\ parsers = << >>
    /\ openaiKey = FALSE
    /\ idx = 1
    /\ articles = << >>
    /\ contents = << >>
    /\ results = << >>
    /\ nJobs = 0
    /\ todo = << >>
    /\ hist = << >>
    /\ writes = 0
    /\ last = NoCall
    /\ \E n \in 0..MaxScored : \E f \in [1..n -> ScoreInputs] : all_articles = WithUrls(f)
    /\ unique_articles = all_articles
    /\ filtered_articles = <<FilterAndDeduplicate(all_articles)>>
    /\ AuxIdle

\* trending_articles = self._extract_trending_articles(filtered_articles)
ExtractTrending ==
    /\ provider = "none"
    /\ \E p \in Providers :
          /\ provider' = p
          /\ trending_articles' = <<ExtractTrendingArticles(p, filtered_articles[1])>>
    /\ UNCHANGED <<storeVars, runVars, histVars, last, filterVars, analyzed_articles,
                   writeVars, fetchVars, publisherVars>>

\* self.trend_analyzer.analyze_trends(articles, job_id)
AnalyzeTrending ==
    /\ Len(trending_articles) = 1
    /\ Len(analyzed_articles) = 0
    /\ analyzed_articles' = <<AnalyzeTrendsList(trending_articles[1])>>
    /\ UNCHANGED <<storeVars, runVars, histVars, last, filterVars, provider,
                   trending_articles, writeVars, fetchVars, publisherVars>>

TrendNext ==
    \/ ExtractTrending
    \/ AnalyzeTrending

TrendSpec == TrendInit /\ [][TrendNext]_vars

\* the place of an article in the list the filter returned
PostDedupIndex(article) ==
    CHOOSE i \in DOMAIN filtered_articles[1] : filtered_articles[1][i].url = article.url

\* a ranked list: trend scores do not increase, equal scores keep the
\* post-deduplication order
RankedByTrendScore(list) ==
    \A i, j \in DOMAIN list :
        i < j => /\ list[i].trend_score >= list[j].trend_score
                 /\ list[i].trend_score = list[j].trend_score
                        => PostDedupIndex(list[i]) < PostDedupIndex(list[j])

\* C21: the list _extract_trending_articles returns and the list analyze_trends
\* returns are in non-increasing trend-score order, articles of equal trend
\* score in their post-deduplication order.
C21_RankedStable ==
    /\ \A k \in DOMAIN trending_articles : RankedByTrendScore(trending_articles[k])
    /\ \A k \in DOMAIN analyzed_articles : RankedByTrendScore(analyzed_articles[k])

\* C22: every trend score a provider assigns lies in [0, 100], whatever the
\* length of the description.
C22_TrendScoreRange ==
    \A k \in DOMAIN trending_articles : \A i \in DOMAIN trending_articles[k] :
        /\ trending_articles[k][i].trend_score >= 0
        /\ trending_articles[k][i].trend_score <= Points(100)

\* C22 witness: a provider has scored an empty description and one twice as
\* long as its constant.
C22_EmptyAndLongScored ==
    /\ Len(trending_articles) = 1
    /\ \E i, j \in DOMAIN trending_articles[1] :
          /\ DescriptionLength(trending_articles[1][i]) = 0
          /\ DescriptionLength(trending_articles[1][j]) >= 2 * DescriptionNorm(provider)

\* min(100, 60 x categoryWeight x sourceWeight x min(1, len/L)): one formula
\* with a category weight and a source weight for every provider
StatedScore(p, article) ==
    Min(Points(100),
        (60 * (IF article.category \in {"technology", "business"} THEN 12 ELSE 10)
            * (IF article.source \in TrustedSources THEN 12 ELSE 10) * 10
            * Min(DescriptionNorm(p), DescriptionLength(article))) \div DescriptionNorm(p))

\* C23: for every provider the trend score of an article is
\* min(100, 60 x categoryWeight x sourceWeight x min(1, len/L)), with no other
\* factor.
C23_TrendScoreFormula ==
    \A k \in DOMAIN trending_articles : \A i \in DOMAIN trending_articles[k] :
        trending_articles[k][i].trend_score = StatedScore(provider, trending_articles[k][i])

\* ---------------------------------------------------------------------
\* The analyzer on one article at a time: the texts, the label and the keyword
\* list vary.
AnalyzerInputs ==
    {[url |-> "u1", title |-> t, description |-> d, padding |-> 0, content |-> c,
      category |-> label, published_at |-> 1, source |-> "Blog", image |-> FALSE,
      keywords |-> k] :
        t \in {<<"o", "k">>, <<"r", "v">>, <<"t", "p">>, <<"n", "w">>,
               <<"r", "v", " ", "t", "p">>, <<"a", "i", " ", "s", "t">>},
        d \in {<< >>, <<"t", "p">>, <<"n", "w">>, <<"h", "l", " ", "e", "d">>},
        c \in {<< >>, <<"V", "R", " ", "s", "o">>},
        label \in {"", "technology", "health", "politics"},
        k \in {<< >>, <<<<"t", "p">>>>, <<<<"o", "k">>, <<"r", "v", "s">>>>}}

AnalyzerInit ==
    /\ data_dir = "data"
    /\ now = 0
    /\ meta = << >>
    /\ art = << >>
    /\ pc = "idle"
    /\ mode = "full"
    /\ argJob = NoJob
    /\ job_id = NoJob
    /\ parsers = << >>
    /\ openaiKey = FALSE
    /\ idx = 1
    /\ articles = << >>
    /\ contents = << >>
    /\ results = << >>
    /\ nJobs = 0
    /\ todo = << >>
    /\ hist = << >>
    /\ writes = 0
    /\ last = NoCall
    /\ \E a \in AnalyzerInputs : all_articles = <<a>>
    /\ unique_articles = all_articles
    /\ filtered_articles = <<all_articles>>
    /\ provider = "gnews"
    /\ trending_articles = <<ExtractTrendingArticles("gnews", all_articles)>>
    /\ analyzed_articles = << >>
    /\ WriteIdle /\ FetchIdle /\ PublisherIdle

AnalyzerNext == AnalyzeTrending

AnalyzerSpec == AnalyzerInit /\ [][AnalyzerNext]_vars

\* C24: the monetization score is 100 iff high > medium and high > low,
\* otherwise 70 iff medium > low, otherwise 30; a tie of high and medium above
\* low gives 70; the score is one of 30, 70, 100.
C24_MonetizationTiers ==
    \A k \in DOMAIN analyzed_articles : \A i \in DOMAIN analyzed_articles[k] :
        LET a == analyzed_articles[k][i]
            high == RevenueScore(a, "high")
            medium == RevenueScore(a, "medium")
            low == RevenueScore(a, "low")
        IN  /\ a.monetization_score \in {30, 70, 100}
            /\ a.monetization_score = 100 <=> (high > medium /\ high > low)
            /\ a.monetization_score = 70 <=> (~(high > medium /\ high > low) /\ medium > low)
            /\ (high = medium /\ medium > low) => a.monetization_score = 70

\* C24 witness: an analyzed article whose high and medium sums tie above low
C24_TieOfHighAndMedium ==
    \E k \in DOMAIN analyzed_articles : \E i \in DOMAIN analyzed_articles[k] :
        LET a == analyzed_articles[k][i]
        IN  /\ RevenueScore(a, "high") = RevenueScore(a, "medium")
            /\ RevenueScore(a, "medium") > RevenueScore(a, "low")
            /\ RevenueKeywordScore(a, "high") > 0
            /\ a.monetization_score = 70

\* C25: the estimated categories are one to three distinct categories in
\* non-increasing score order: the highest-scoring categories of score > 0, or
\* the fallback category alone when no category scores.
C25_TopCategories ==
    \A k \in DOMAIN analyzed_articles : \A i \in DOMAIN analyzed_articles[k] :
        LET a == analyzed_articles[k][i]
            r == a.estimated_categories
            chosen == {r[n] : n \in DOMAIN r}
            all == {Categories[n] : n \in DOMAIN Categories}
            positive == {c \in all : CategoryScore(a, c) > 0}
        IN  /\ Len(r) \in 1..3
            /\ Cardinality(chosen) = Len(r)
            /\ chosen \subseteq all
            /\ \A m, n \in DOMAIN r :
                   m < n => CategoryScore(a, r[m]) >= CategoryScore(a, r[n])
            /\ positive = {} => r = <<"lifestyle">>
            /\ positive # {} =>
                   /\ chosen \subseteq positive
                   /\ Len(r) = Min(3, Cardinality(positive))
                   /\ \A c \in positive \ chosen : \A d \in chosen :
                          CategoryScore(a, c) <= CategoryScore(a, d)

\* C25 witness: more than three categories score and a later one of the dict
\* outscores an earlier one
C25_MoreThanThreeScore ==
    \E k \in DOMAIN analyzed_articles : \E i \in DOMAIN analyzed_articles[k] :
        LET a == analyzed_articles[k][i]
        IN  /\ Cardinality({n \in DOMAIN Categories : CategoryScore(a, Categories[n]) > 0}) > 3
            /\ \E m, n \in DOMAIN Categories :
                   /\ m < n
                   /\ CategoryScore(a, Categories[m]) > 0
                   /\ CategoryScore(a, Categories[m]) < CategoryScore(a, Categories[n])
            /\ Len(a.estimated_categories) = 3

\* C26: with no provider, or providers that return nothing, discovery returns
\* an empty list; analysis of an empty list returns an empty list without
\* raising and without invoking the scorer; generation and publishing of an
\* empty list return an empty list without raising and without invoking the
\* content generator or a publisher.
C26_EmptyShortCircuits ==
    [][/\ (pc = "discover" /\ Len(todo) = 0 /\ idx > Len(parsers) /\ articles = << >>)
           => (articles' = << >> /\ todo' = << >> /\ pc' = "save_trends")
       /\ (pc = "generate" /\ Len(todo) = 0 /\ articles = << >>)
           => (contents' = << >> /\ todo' = << >> /\ pc' \in {"publish", "done"})
       /\ (pc = "publish" /\ Len(todo) = 0 /\ contents = << >>)
           => (results' = << >> /\ todo' = << >> /\ pc' = "save_results")]_vars

\* C26 witness: a full run without providers has published the empty list
C26_EmptyRunPublished ==
    /\ parsers = << >>
    /\ mode = "full"
    /\ pc = "save_results"
    /\ articles = << >> /\ contents = << >> /\ results = << >>

\* C27: a provider without credentials returns an empty list from get_trends
\* without raising and without writing to the job record.
C27_MissingCredentials ==
    [][(/\ pc = "discover" /\ Len(todo) = 0 /\ idx <= Len(parsers)
        /\ parsers[idx] # NoParser /\ ~parsers[idx].key)
       => /\ articles' = articles
          /\ pc' = "discover"
          /\ idx' = idx + 1
          /\ todo' = << >>
          /\ meta' = meta]_vars

\* C27 witness: the provider without credentials has returned
C27_KeylessProviderReturned ==
    /\ pc = "discover"
    /\ idx = 2
    /\ Len(parsers) = 1
    /\ ~parsers[1].key
    /\ articles = << >>

\* ---------------------------------------------------------------------
\* update_job_metadata step by step, and a process that can be killed between
\* two steps. The text of a file is a sequence of tokens: an opening brace, one
\* token per entry of the dict, a closing brace.
Token(k, v) == [key |-> k, value |-> v]

RECURSIVE Items(_)
Items(rec) ==
    IF DOMAIN rec = {} THEN << >>
    ELSE LET k == CHOOSE k \in DOMAIN rec : TRUE
         IN  <<Token(k, rec[k])>> \o Items([x \in DOMAIN rec \ {k} |-> rec[x]])

\* the chunks json.dump(metadata, f) writes
JsonDump(rec) == <<Token(<<"{">>, "")>> \o Items(rec) \o <<Token(<<"}">>, "")>>

\* json.load(f): the dict, or JSONDecodeError for an empty or unfinished text
JsonLoad(text) ==
    IF Len(text) >= 2 /\ text[1].key = <<"{">> /\ text[Len(text)].key = <<"}">>
    THEN [err |-> "none",
          data |-> [k \in {text[i].key : i \in 2..(Len(text) - 1)} |->
                       text[CHOOSE i \in 2..(Len(text) - 1) : text[i].key = k].value]]
    ELSE [err |-> "JSONDecodeError", data |-> << >>]

\* open(metadata_path, 'w'): the file exists and is empty
Truncated == [exists |-> TRUE, text |-> << >>]

\* the helpers of metadata_enhancer as get_trends calls them
EnhancerCalls ==
    {Call("update_job_status", "in_progress", ""),
     Call("update_job_status", "failed", "error text"),
     Call("track_performance", "trend_analysis", ""),
     Call("track_api_usage", "news", "")}

WriteInit ==
    /\ data_dir = "data"
    /\ now = 0
    /\ meta = << >>
    /\ art = << >>
    /\ pc = "idle"
    /\ mode = "full"
    /\ argJob = NoJob
    /\ job_id = JobId(1)
    /\ parsers = << >>
    /\ openaiKey = FALSE
    /\ idx = 1
    /\ articles = << >>
    /\ contents = << >>
    /\ results = << >>
    /\ nJobs = 1
    /\ todo = << >>
    /\ hist = << >>
    /\ writes = 0
    /\ last = NoCall
    /\ all_articles = << >>
    /\ unique_articles = << >>
    /\ filtered_articles = << >>
    /\ ScoreIdle /\ FetchIdle /\ PublisherIdle
    /\ metadata_file \in {NoFile,
                           [exists |-> TRUE, text |-> JsonDump(InitialRecord(JobId(1), 0))]}
    /\ metadata = << >>
    /\ writer = "idle"
    /\ old_file = metadata_file

\* update_job_metadata up to the second open: read the file or start a record,
\* merge the updates, stamp updated_at; a file that does not parse ends the
\* call in the except clause
ReadAndMerge ==
    /\ writer = "idle"
    /\ writes < MaxWrites
    /\ writes' = writes + 1
    /\ old_file' = metadata_file
    /\ \E call \in EnhancerCalls, t \in now..MaxClock :
          LET loaded == JsonLoad(metadata_file.text)
              old == IF metadata_file.exists THEN loaded.data ELSE UnknownRecord(job_id, t)
              upd == Updates(call, t)
              merged == DictUpdate(old, upd)
          IN  /\ now' = t
              /\ IF metadata_file.exists /\ loaded.err # "none"
                 THEN UNCHANGED <<metadata, writer>>
                 ELSE /\ metadata' = IF "updated_at" \in DOMAIN upd THEN merged
                                     ELSE SetLeaf(merged, <<"updated_at">>, t)
                      /\ writer' = "computed"
    /\ UNCHANGED <<meta, art, data_dir, runVars, hist, last, filterVars, scoreVars,
                   fetchVars, publisherVars, metadata_file>>

\* with open(metadata_path, 'w', encoding='utf-8') as f
OpenForWriting ==
    /\ writer = "computed"
    /\ metadata_file' = Truncated
    /\ writer' = "opened"
    /\ UNCHANGED <<storeVars, runVars, histVars, last, filterVars, scoreVars,
                   fetchVars, publisherVars, metadata, old_file>>

\* json.dump: the next chunk reaches the file
WriteChunk ==
    /\ writer = "opened"
    /\ Len(metadata_file.text) < Len(JsonDump(metadata))
    /\ metadata_file' =
           [exists |-> TRUE,
            text |-> Append(metadata_file.text,
                            JsonDump(metadata)[Len(metadata_file.text) + 1])]
    /\ UNCHANGED <<storeVars, runVars, histVars, last, filterVars, scoreVars,
                   fetchVars, publisherVars, metadata, writer, old_file>>

\* the with block ends, update_job_metadata returns True
CloseFile ==
    /\ writer = "opened"
    /\ Len(metadata_file.text) = Len(JsonDump(metadata))
    /\ writer' = "idle"
    /\ UNCHANGED <<storeVars, runVars, histVars, last, filterVars, scoreVars,
                   fetchVars, publisherVars, metadata_file, metadata, old_file>>

\* the run is interrupted: the process ends where it is
Kill ==
    /\ writer \in {"idle", "computed", "opened"}
    /\ writer' = "killed"
    /\ UNCHANGED <<storeVars, runVars, histVars, last, filterVars, scoreVars,
                   fetchVars, publisherVars, metadata_file, metadata, old_file>>

\* a later run works on the files the killed one left
NextRun ==
    /\ writer = "killed"
    /\ writer' = "idle"
    /\ UNCHANGED <<storeVars, runVars, histVars, last, filterVars, scoreVars,
                   fetchVars, publisherVars, metadata_file, metadata, old_file>>

WriteNext ==
    \/ ReadAndMerge
    \/ OpenForWriting
    \/ WriteChunk
    \/ CloseFile
    \/ Kill
    \/ NextRun

WriteSpec == WriteInit /\ [][WriteNext]_vars

\* the file holds a whole record, or is not there
WholeRecord(file) == ~file.exists \/ JsonLoad(file.text).err = "none"

\* C28: after an interruption at an arbitrary point the job record file is a
\* complete, parseable record: the one before the write in progress or the one
\* after it, never an empty or half-written file.
C28_NoPartialRecord ==
    (writer = "killed" /\ WholeRecord(old_file))
        => /\ WholeRecord(metadata_file)
           /\ metadata_file.exists =>
                  \/ (old_file.exists
                        /\ JsonLoad(metadata_file.text).data = JsonLoad(old_file.text).data)
                  \/ JsonLoad(metadata_file.text).data = metadata

\* ---------------------------------------------------------------------
\* The requests of one parser. Time is counted in ticks; the wall clock is far
\* from 0 when the parser is built, so the first request never waits.
\* self.request_interval, in ticks
RequestInterval == 2

FetchInit ==
    /\ data_dir = "data"
    /\ now = RequestInterval
    /\ meta = << >>
    /\ art = << >>
    /\ pc = "idle"
    /\ mode = "full"
    /\ argJob = NoJob
    /\ job_id = NoJob
    /\ parsers = << >>
    /\ openaiKey = FALSE
    /\ idx = 1
    /\ articles = << >>
    /\ contents = << >>
    /\ results = << >>
    /\ nJobs = 0
    /\ todo = << >>
    /\ hist = << >>
    /\ writes = 0
    /\ last = NoCall
    /\ all_articles = << >>
    /\ unique_articles = << >>
    /\ filtered_articles = << >>
    /\ AuxIdle

\* when _fetch_top_news calls session.get: at once, or after time.sleep
RequestTime(current_time) ==
    LET elapsed == current_time - last_request_time
    IN  IF elapsed < RequestInterval
        THEN current_time + (RequestInterval - elapsed)
        ELSE current_time

\* _fetch_top_news(category): wait if needed, session.get; last_request_time is
\* set when a response arrives, and is left alone when session.get raises
\* requests.RequestException
FetchTopNews ==
    /\ Len(request_times) < MaxRequests
    /\ \E took \in 0..1, outcome \in {"response", "RequestException"} :
          /\ RequestTime(now) + took <= MaxTime
          /\ request_times' = Append(request_times, RequestTime(now))
          /\ now' = RequestTime(now) + took
          /\ last_request_time' = IF outcome = "response" THEN RequestTime(now) + took
                                  ELSE last_request_time
    /\ UNCHANGED <<data_dir, meta, art, runVars, histVars, last, filterVars, scoreVars,
                   writeVars, publisherVars>>

\* the work of get_trends between two fetches takes time
Elapse ==
    /\ now < MaxTime
    /\ now' = now + 1
    /\ UNCHANGED <<data_dir, meta, art, runVars, histVars, last, filterVars, scoreVars,
                   writeVars, fetchVars, publisherVars>>

FetchNext ==
    \/ FetchTopNews
    \/ Elapse

FetchSpec == FetchInit /\ [][FetchNext]_vars

\* C29: two consecutive HTTP requests of a provider are at least
\* request_interval apart, whatever the outcome of the earlier one.
C29_MinimumInterval ==
    \A i \in 1..(Len(request_times) - 1) :
        request_times[i + 1] - request_times[i] >= RequestInterval

\* ---------------------------------------------------------------------
\* One DocusaurusPublisher and the posts of a batch.
PostPaths == {"blog/a/index.md", "blog/b/index.md", "blog/c/index.md"}

PublisherInit ==
    /\ data_dir = "data"
    /\ now = 0
    /\ meta = << >>
    /\ art = << >>
    /\ pc = "idle"
    /\ mode = "full"
    /\ argJob = NoJob
    /\ job_id = NoJob
    /\ parsers = << >>
    /\ openaiKey = FALSE
    /\ idx = 1
    /\ articles = << >>
    /\ contents = << >>
    /\ results = << >>
    /\ nJobs = 0
    /\ todo = << >>
    /\ hist = << >>
    /\ writes = 0
    /\ last = NoCall
    /\ all_articles = << >>
    /\ unique_articles = << >>
    /\ filtered_articles = << >>
    /\ ScoreIdle /\ WriteIdle /\ FetchIdle
    /\ github_token \in BOOLEAN
    /\ reachable \in BOOLEAN
    /\ github = FALSE
    /\ created = << >>

\* _init_github(): what it returns and whether self._github is set afterwards.
\* It builds the client only when there is none and a token is set, and returns
\* True only from that branch.
InitGithub ==
    IF ~github /\ github_token
    THEN IF reachable THEN [ret |-> TRUE, github |-> TRUE]
         ELSE [ret |-> FALSE, github |-> FALSE]
    ELSE [ret |-> FALSE, github |-> github]

\* _create_file(path, content, commit_message): self._repo.create_file when
\* _init_github() returned True, else _save_local
CreateFile ==
    /\ Len(created) < MaxPosts
    /\ \E path \in PostPaths :
          created' = Append(created,
                            [path |-> path,
                             via |-> IF InitGithub.ret THEN "github" ELSE "local"])
    /\ github' = InitGithub.github
    /\ UNCHANGED <<storeVars, runVars, histVars, last, filterVars, scoreVars, writeVars,
                   fetchVars, github_token, reachable>>

PublisherNext == CreateFile

PublisherSpec == PublisherInit /\ [][PublisherNext]_vars

\* C30: with a valid token and a reachable repository every post of a batch is
\* committed to the repository; no call of _create_file saves locally.
C30_EveryPostCommitted ==
    (github_token /\ reachable)
        => \A i \in DOMAIN created : created[i].via = "github"

====
